---- MODULE Spec2Model ----
(***************************************************************************)
(* Model of src-tauri/src/main.rs of Quack: the animation stepper          *)
(* (smooth_resize, smooth_move), the follow-mode command                   *)
(* (follow_magic_dot), the dock command (pin_magic_dot) and the            *)
(* foreground-process watcher (start_window_watch).                        *)
(*                                                                         *)
(* The "magic-dot" window is one shared object: winSize and winPos are its *)
(* physical geometry.  Every platform call that returns a Result or an     *)
(* Option in the source (window lookup, outer_size, outer_position,        *)
(* current_monitor, set_size, set_position, the foreground probe) is an    *)
(* input of the action that makes it, drawn with \E: it succeeds or fails. *)
(* A failed write leaves the geometry as it was.  Every thread::sleep is a *)
(* point where other threads may run, so each animation frame and each     *)
(* loop tick is one action; the reads, the arithmetic and the write of one *)
(* tick, which no sleep separates, are one step.                           *)
(*                                                                         *)
(* Arithmetic is the source's i32 arithmetic on values far from the i32    *)
(* limits (window and screen coordinates), so no operation wraps.          *)
(***************************************************************************)
EXTENDS Integers, Sequences, FiniteSets, TLC

\* ------------------------------------------------------------- bounds
\* Largest size/position component the animation harness draws.
MaxDim == 3
\* Largest step count the animation harness draws.
MaxSteps == 3
\* Notifications one watcher loop is followed for.
MaxEmits == 3

MaxOffset == 8

\* -------------------------------------------------- program constants
DotWidth == 20
DotHeight == 20
OriginalWidth == 400
OriginalHeight == 48
AnimSteps == 10
HalfDot == 10
ExitDistance == 20
PursuitDistance == 40
FallbackDim == 10
GainHundredths == 15
MinDim == 1
ExeLen == 4

\* --------------------------------------------------------- arithmetic
Abs(a) == IF a < 0 THEN -a ELSE a

Max(a, b) == IF a >= b THEN a ELSE b

\* Integer division rounding toward minus infinity.
FloorDiv(a, b) == a \div b

\* Rust's i32 `/`: the quotient truncated toward zero (b > 0 here).
TruncDiv(a, b) == IF a >= 0 THEN a \div b ELSE -((-a) \div b)

Size(w, h) == [width |-> w, height |-> h]

Pos(px, py) == [x |-> px, y |-> py]

\* ---------------------------------------------------------- threads
\* The invocations followed: two follow_magic_dot calls, one pin_magic_dot
\* call, and one direct call of smooth_resize/smooth_move with arbitrary
\* arguments.
FollowTasks == {"follow1", "follow2"}

Threads == FollowTasks \cup {"pin", "anim"}

Watchers == {"watch1", "watch2"}

VARIABLES
    winSize,     \* the window's outer size
    winPos,      \* the window's outer position
    pc,          \* pc[th]: where thread th is in its command
    anim,        \* anim[th]: the smooth_resize/smooth_move call th is inside
    req,         \* req[th]: the last set_size/set_position th issued
    nreq,        \* nreq[th]: writes th issued in its current animation
    slept,       \* slept[th]: sleeps th made in its current animation
    tick,        \* tick[t]: what follow task t read and did in its last tick
    seen,        \* seen[t]: the kinds of events task t has produced
    lastEv,      \* lastEv[t]: the kind of t's latest event
    count,       \* count[t]: how often t started an expand / emitted a signal
    pinArgs,     \* what pin_magic_dot found and read, and where the window was
    started,     \* started[w]: watcher loop w is running
    last_title,  \* last_title[w]: the watcher's last-known name
    emitted,     \* emitted[w]: payloads of w's active_window_changed events
    wtick        \* wtick[w]: what w probed and did in its last tick, and what
                 \* its last-known name and number of notifications were before

windowVars == <<winSize, winPos>>
animVars == <<pc, anim, req, nreq, slept>>
followVars == <<tick, seen, lastEv, count>>
watchVars == <<started, last_title, emitted, wtick>>
vars == <<winSize, winPos, pc, anim, req, nreq, slept, tick, seen, lastEv,
          count, pinArgs, started, last_title, emitted, wtick>>

\* ------------------------------------------------- animation stepper
\* anim[th].active: th is inside the call; the arguments stay readable after
\* it has returned.
NoAnim == [active |-> FALSE]

NoReq == [kind |-> "none"]

PosReq(v, ok) == [kind |-> "pos", val |-> v, ok |-> ok]

Call(fn, from, to, steps) ==
    [active |-> TRUE, fn |-> fn, from |-> from, to |-> to, steps |-> steps, i |-> 1]

\* smooth_resize's i-th frame: step_width/step_height by integer division,
\* each dimension not less than 1.
ResizeFrame(from, to, steps, i) ==
    LET step_width  == TruncDiv(to.width - from.width, steps)
        step_height == TruncDiv(to.height - from.height, steps)
    IN  Size(Max(from.width + step_width * i, MinDim),
             Max(from.height + step_height * i, MinDim))

\* smooth_move's i-th frame.
MoveFrame(from, to, steps, i) ==
    LET dx == TruncDiv(to.x - from.x, steps)
        dy == TruncDiv(to.y - from.y, steps)
    IN  Pos(from.x + dx * i, from.y + dy * i)

\* Event names: a frame of the loop and the closing write of the animation
\* that runs while the caller is at p.
FrameEv(p) == <<p, "frame">>

FinalEv(p) == <<p, "final">>

\* What the caller does when the animation returns.
AfterAnim(p) ==
    CASE p = "shrink" -> "follow"
      [] p = "expand" -> "emit_exit"
      [] p = "move"   -> "pinned"
      [] OTHER        -> "returned"

\* A closing write that repeats the last frame of the loop.
FinalValueStale(a) ==
    IF a.fn = "smooth_resize"
    THEN ResizeFrame(a.from, a.to, a.steps, a.steps)
    ELSE MoveFrame(a.from, a.to, a.steps, a.steps)

\* The value the closing write of an animation applies: `to` itself.
FinalValue(a) == a.to

\* Thread th produces the events evs, the last of them being ev.
Event(th, evs, ev) ==
    /\ seen' = [seen EXCEPT ![th] = @ \cup evs]
    /\ lastEv' = [lastEv EXCEPT ![th] = ev]

\* A set_size or set_position call whose Result is dropped (`let _ =`).
Written(th, kind, val, ok) ==
    /\ req' = [req EXCEPT ![th] = [kind |-> kind, val |-> val, ok |-> ok]]
    /\ IF kind = "size"
       THEN /\ winSize' = IF ok THEN val ELSE winSize
            /\ UNCHANGED winPos
       ELSE /\ winPos' = IF ok THEN val ELSE winPos
            /\ UNCHANGED winSize

Kind(a) == IF a.fn = "smooth_resize" THEN "size" ELSE "pos"

\* A steps == 0 branch that sleeps a frame after its write.
SmoothZeroSleeps(th) ==
    /\ anim[th].active
    /\ anim[th].steps = 0
    /\ \E ok \in BOOLEAN : Written(th, Kind(anim[th]), anim[th].to, ok)
    /\ nreq' = [nreq EXCEPT ![th] = @ + 1]
    /\ slept' = [slept EXCEPT ![th] = @ + 1]
    /\ anim' = [anim EXCEPT ![th].active = FALSE]
    /\ pc' = [pc EXCEPT ![th] = AfterAnim(pc[th])]
    /\ Event(th, {FinalEv(pc[th])}, FinalEv(pc[th]))
    /\ UNCHANGED <<tick, count, pinArgs, watchVars>>

\* steps == 0: apply `to` and return.
SmoothZero(th) ==
    /\ anim[th].active
    /\ anim[th].steps = 0
    /\ \E ok \in BOOLEAN : Written(th, Kind(anim[th]), anim[th].to, ok)
    /\ nreq' = [nreq EXCEPT ![th] = @ + 1]
    /\ anim' = [anim EXCEPT ![th].active = FALSE]
    /\ pc' = [pc EXCEPT ![th] = AfterAnim(pc[th])]
    /\ Event(th, {FinalEv(pc[th])}, FinalEv(pc[th]))
    /\ UNCHANGED <<slept, tick, count, pinArgs, watchVars>>

\* A loop that returns from the call when a write fails.
SmoothStepStopsOnErr(th) ==
    /\ anim[th].active
    /\ anim[th].steps > 0
    /\ anim[th].i <= anim[th].steps
    /\ \E ok \in BOOLEAN :
          /\ LET a == anim[th]
                 frame == IF a.fn = "smooth_resize"
                          THEN ResizeFrame(a.from, a.to, a.steps, a.i)
                          ELSE MoveFrame(a.from, a.to, a.steps, a.i)
             IN  Written(th, Kind(a), frame, ok)
          /\ anim' = [anim EXCEPT ![th].i = @ + 1, ![th].active = ok]
          /\ pc' = [pc EXCEPT ![th] = IF ok THEN @ ELSE AfterAnim(@)]
          /\ slept' = [slept EXCEPT ![th] = IF ok THEN @ + 1 ELSE @]
    /\ nreq' = [nreq EXCEPT ![th] = @ + 1]
    /\ Event(th, {FrameEv(pc[th])}, FrameEv(pc[th]))
    /\ UNCHANGED <<tick, count, pinArgs, watchVars>>

\* One pass of the `for i in 1..=steps` loop: write frame i, sleep.
SmoothStep(th) ==
    /\ anim[th].active
    /\ anim[th].steps > 0
    /\ anim[th].i <= anim[th].steps
    /\ LET a == anim[th]
           frame == IF a.fn = "smooth_resize"
                    THEN ResizeFrame(a.from, a.to, a.steps, a.i)
                    ELSE MoveFrame(a.from, a.to, a.steps, a.i)
       IN  \E ok \in BOOLEAN : Written(th, Kind(a), frame, ok)
    /\ nreq' = [nreq EXCEPT ![th] = @ + 1]
    /\ anim' = [anim EXCEPT ![th].i = @ + 1]
    /\ slept' = [slept EXCEPT ![th] = @ + 1]
    /\ Event(th, {FrameEv(pc[th])}, FrameEv(pc[th]))
    /\ UNCHANGED <<pc, tick, count, pinArgs, watchVars>>

\* After the loop: the closing write of `to`, then return to the caller.
SmoothFinal(th) ==
    /\ anim[th].active
    /\ anim[th].steps > 0
    /\ anim[th].i > anim[th].steps
    /\ \E ok \in BOOLEAN : Written(th, Kind(anim[th]), FinalValue(anim[th]), ok)
    /\ nreq' = [nreq EXCEPT ![th] = @ + 1]
    /\ anim' = [anim EXCEPT ![th].active = FALSE]
    /\ pc' = [pc EXCEPT ![th] = AfterAnim(pc[th])]
    /\ Event(th, {FinalEv(pc[th])}, FinalEv(pc[th]))
    /\ UNCHANGED <<slept, tick, count, pinArgs, watchVars>>

Smooth(th) == SmoothZero(th) \/ SmoothStep(th) \/ SmoothFinal(th)

\* A call with steps = 10, as every caller in this file makes it: the
\* steps == 0 branch is not taken.
Animate(th) == SmoothStep(th) \/ SmoothFinal(th)

\* ------------------------------------------------------- follow mode
DotSize == Size(DotWidth, DotHeight)

\* The two dimensions the other way round.
OriginalSizeTransposed == Size(OriginalHeight, OriginalWidth)

\* original_size, the size the expand animation restores.
original_size == Size(OriginalWidth, OriginalHeight)

\* unwrap_or's default when the size cannot be read before the expand.
FallbackSize == Size(FallbackDim, FallbackDim)

\* The mouse locations enigo.mouse_location() may report.
MousePoints ==
    {Pos(110, 110), Pos(129, 110), Pos(130, 110), Pos(150, 110),
     Pos(151, 110), Pos(177, 57)}

\* The squared distance from the dot's centre to the mouse; `distance` is its
\* f64 square root, which is below 20.0 (above 40.0) exactly when the square
\* is below 400 (above 1600).
DistanceSquared(position, mouse) ==
    LET dx == mouse.x - (position.x + HalfDot)
        dy == mouse.y - (position.y + HalfDot)
    IN  dx * dx + dy * dy

\* `distance < 20.0`
InExitZone(position, mouse) ==
    DistanceSquared(position, mouse) < ExitDistance * ExitDistance

\* `distance > 40.0`
InPursuitZone(position, mouse) ==
    DistanceSquared(position, mouse) > PursuitDistance * PursuitDistance

\* The gain rounded down instead of toward zero.
GainFloor(d) == (d * GainHundredths) \div 100

\* `((d as f64) * 0.15) as i32`: the f64 product cast to i32, which drops the
\* fraction.  For every i32 d the rounded f64 product has the same integer
\* part as the exact 15*d/100, so the cast yields that quotient truncated
\* toward zero.
Gain(d) == TruncDiv(d * GainHundredths, 100)

\* A pursuit that puts the dot's centre on the mouse at once.
PursuitTargetSnap(position, mouse) ==
    Pos(mouse.x - HalfDot, mouse.y - HalfDot)

\* The position a pursuit tick sets.
PursuitTarget(position, mouse) ==
    LET dx == mouse.x - (position.x + HalfDot)
        dy == mouse.y - (position.y + HalfDot)
    IN  Pos(position.x + Gain(dx), position.y + Gain(dy))

\* The two signals the other way round.
SignalsSwapped == <<"onboarding_done", "exit_follow_mode">>

\* The two lifecycle signals, in the order the loop emits them.
Signals == <<"exit_follow_mode", "onboarding_done">>

\* A loop that goes on after the signals.
AfterSignalsResume == "follow"

\* `break` after the second signal: the closure returns and the thread ends.
AfterSignals == "done"

\* A loop that ends when outer_position() is an Err.
PositionErrEndsLoop == "done"

\* What a tick does when outer_position() is an Err: nothing (the `if let Ok`
\* body is skipped) and the loop goes on.
PositionErrNext == "follow"

\* The Err the command returns when the lookup yields None.
NotFoundErr == <<"Err", "Magic-dot window not found">>

\* A command that spawns the follow loop although the window is missing.
WindowMissingSpawns == "follow"

\* Where follow_magic_dot is after `None => return Err(...)`: it has returned
\* before any read, write or thread::spawn.
WindowMissingNext == "notfound"

\* An entry that waits until no other invocation is under way.
EntryExclusive(t) ==
    \A u \in FollowTasks \ {t} : pc[u] \in {"idle", "notfound", "panicked", "done"}

\* What follow_magic_dot tests before it starts: nothing.  It takes no lock
\* and keeps no flag, and the loop it spawns is detached.
Entry(t) == TRUE

\* follow_magic_dot up to the start of the shrink animation.
FollowInvoke(t) ==
    /\ pc[t] = "idle"
    /\ Entry(t)
    /\ \E found \in BOOLEAN, sizeRead \in BOOLEAN :
          \/ /\ ~found                      \* "Magic-dot window not found"
             /\ pc' = [pc EXCEPT ![t] = WindowMissingNext]
             /\ Event(t, {NotFoundErr}, NotFoundErr)
             /\ UNCHANGED anim
          \/ /\ found
             /\ ~sizeRead                   \* outer_size().unwrap() on an Err
             /\ pc' = [pc EXCEPT ![t] = "panicked"]
             /\ UNCHANGED <<anim, seen, lastEv>>
          \/ /\ found
             /\ sizeRead
             /\ pc' = [pc EXCEPT ![t] = "shrink"]
             /\ anim' = [anim EXCEPT ![t] =
                           Call("smooth_resize", winSize, DotSize, AnimSteps)]
             /\ UNCHANGED <<seen, lastEv>>
    /\ UNCHANGED <<windowVars, req, nreq, slept, tick, count, pinArgs, watchVars>>

\* One pass of the follow loop of the spawned thread, the mouse being
\* somewhere in `mice`.
FollowTickAt(t, mice) ==
    /\ pc[t] = "follow"
    /\ \E mouse \in mice, posRead \in BOOLEAN :
          \/ /\ ~posRead
             /\ tick' = [tick EXCEPT ![t] =
                   [ticked |-> TRUE, posRead |-> FALSE, mouse |-> mouse,
                    sizeRead |-> "none", wrote |-> FALSE, left |-> FALSE]]
             /\ pc' = [pc EXCEPT ![t] = PositionErrNext]
             /\ Event(t, {<<"tick">>}, <<"tick">>)
             /\ UNCHANGED <<windowVars, anim, req, nreq, slept, count>>
          \/ /\ posRead
             /\ InExitZone(winPos, mouse)
             /\ \E sizeRead \in BOOLEAN :
                   /\ tick' = [tick EXCEPT ![t] =
                         [ticked |-> TRUE, posRead |-> TRUE, position |-> winPos,
                          mouse |-> mouse,
                          sizeRead |-> IF sizeRead THEN "ok" ELSE "failed",
                          wrote |-> FALSE, left |-> TRUE]]
                   /\ anim' = [anim EXCEPT ![t] =
                         Call("smooth_resize",
                              IF sizeRead THEN winSize ELSE FallbackSize,
                              original_size, AnimSteps)]
             /\ pc' = [pc EXCEPT ![t] = "expand"]
             /\ count' = [count EXCEPT ![t].expand = @ + 1]
             /\ nreq' = [nreq EXCEPT ![t] = 0]
             /\ slept' = [slept EXCEPT ![t] = 0]
             /\ Event(t, {<<"tick">>}, <<"tick">>)
             /\ UNCHANGED <<windowVars, req>>
          \/ /\ posRead
             /\ ~InExitZone(winPos, mouse)
             /\ InPursuitZone(winPos, mouse)
             /\ \E ok \in BOOLEAN :
                   /\ tick' = [tick EXCEPT ![t] =
                         [ticked |-> TRUE, posRead |-> TRUE, position |-> winPos,
                          mouse |-> mouse, sizeRead |-> "none", wrote |-> TRUE,
                          val |-> PursuitTarget(winPos, mouse), ok |-> ok,
                          left |-> FALSE]]
                   /\ Written(t, "pos", PursuitTarget(winPos, mouse), ok)
             /\ Event(t, {<<"tick">>, <<"follow", "write">>}, <<"follow", "write">>)
             /\ UNCHANGED <<pc, anim, nreq, slept, count>>
          \/ /\ posRead
             /\ ~InExitZone(winPos, mouse)
             /\ ~InPursuitZone(winPos, mouse)
             /\ tick' = [tick EXCEPT ![t] =
                   [ticked |-> TRUE, posRead |-> TRUE, position |-> winPos,
                    mouse |-> mouse, sizeRead |-> "none", wrote |-> FALSE,
                    left |-> FALSE]]
             /\ Event(t, {<<"tick">>}, <<"tick">>)
             /\ UNCHANGED <<windowVars, pc, anim, req, nreq, slept, count>>
    /\ UNCHANGED <<pinArgs, watchVars>>

FollowTick(t) == FollowTickAt(t, MousePoints)

\* app.emit("exit_follow_mode", ()) after the expand animation.
EmitFirst(t) ==
    /\ pc[t] = "emit_exit"
    /\ pc' = [pc EXCEPT ![t] = "emit_done"]
    /\ count' = [count EXCEPT ![t] =
          IF Signals[1] = "exit_follow_mode"
          THEN [@ EXCEPT !.exit = @ + 1] ELSE [@ EXCEPT !.done = @ + 1]]
    /\ Event(t, {<<Signals[1]>>}, <<Signals[1]>>)
    /\ UNCHANGED <<windowVars, anim, req, nreq, slept, tick, pinArgs, watchVars>>

\* app.emit("onboarding_done", ()), then `break`.
EmitSecond(t) ==
    /\ pc[t] = "emit_done"
    /\ pc' = [pc EXCEPT ![t] = AfterSignals]
    /\ count' = [count EXCEPT ![t] =
          IF Signals[2] = "exit_follow_mode"
          THEN [@ EXCEPT !.exit = @ + 1] ELSE [@ EXCEPT !.done = @ + 1]]
    /\ Event(t, {<<Signals[2]>>}, <<Signals[2]>>)
    /\ UNCHANGED <<windowVars, anim, req, nreq, slept, tick, pinArgs, watchVars>>

Follow(t) ==
    FollowInvoke(t) \/ Animate(t) \/ FollowTick(t) \/ EmitFirst(t) \/ EmitSecond(t)

\* --------------------------------------------------------------- dock
\* What window.current_monitor() may return: Err, Ok(None), or a monitor of
\* one of these widths.
MonitorWidths == {1920, 300}

Monitors ==
    {[st |-> "err"], [st |-> "none"]}
        \cup {[st |-> "some", width |-> w] : w \in MonitorWidths}

\* center_x without the .max(0).
PinTargetUnclamped(current_size, screen_width) ==
    Pos(TruncDiv(screen_width - current_size.width, 2), 0)

\* target_pos: ((screen width - window width) / 2).max(0), y = 0.
PinTarget(current_size, screen_width) ==
    Pos(Max(TruncDiv(screen_width - current_size.width, 2), 0), 0)

\* A match that does not look at the position read.
PinReadsAnyPosition(found, posRead, sizeRead, monitor) ==
    found /\ sizeRead /\ monitor.st = "some"

\* `if let Some(window)` and `if let (Ok(..), Ok(..), Ok(Some(..)))`: the
\* window is found and position, size and monitor are all read.
PinReads(found, posRead, sizeRead, monitor) ==
    found /\ posRead /\ sizeRead /\ monitor.st = "some"

\* pin_magic_dot up to the start of the move animation.  The three reads are
\* made only when the window is found.
PinInvoke ==
    /\ pc["pin"] = "idle"
    /\ \E found \in BOOLEAN, posRead \in BOOLEAN, sizeRead \in BOOLEAN,
          monitor \in Monitors :
          IF PinReads(found, posRead, sizeRead, monitor)
          THEN /\ pinArgs' = [read |-> TRUE, found |-> TRUE, posRead |-> posRead,
                              sizeRead |-> sizeRead, monitor |-> monitor.st,
                              current_pos |-> winPos,
                              current_size |-> winSize,
                              screen_width |-> monitor.width]
               /\ anim' = [anim EXCEPT !["pin"] =
                     Call("smooth_move", winPos,
                          PinTarget(winSize, monitor.width), AnimSteps)]
               /\ pc' = [pc EXCEPT !["pin"] = "move"]
          ELSE /\ pinArgs' = IF found
                             THEN [read |-> FALSE, found |-> TRUE,
                                   posRead |-> posRead, sizeRead |-> sizeRead,
                                   monitor |-> monitor.st, current_pos |-> winPos]
                             ELSE [read |-> FALSE, found |-> FALSE,
                                   current_pos |-> winPos]
               /\ pc' = [pc EXCEPT !["pin"] =
                     IF found THEN "unavailable" ELSE "notfound"]
               /\ UNCHANGED anim
    /\ UNCHANGED <<windowVars, req, nreq, slept, followVars, watchVars>>

Pin == PinInvoke \/ Animate("pin")

\* ------------------------------------------------------------ watcher
EXE == <<".", "e", "x", "e">>

QUACK == <<"q", "u", "a", "c", "k">>

\* The base names GetModuleBaseNameW may deliver (len > 0, valid UTF-16).
ProcessNames ==
    {<<"a">>, <<"a">> \o EXE, <<"a">> \o EXE \o EXE, <<"b">> \o EXE,
     QUACK, QUACK \o EXE, EXE, <<"a", ".", "E", "X", "E">>, <<"e", "x", "e">>}

\* A probe: it fails (no foreground window, no process id, no process
\* handle, no base name, a name that is not valid Unicode) or delivers a name.
Probes == {[ok |-> FALSE]} \cup {[ok |-> TRUE, name |-> n] : n \in ProcessNames}

None == [some |-> FALSE]

Some(v) == [some |-> TRUE, val |-> v]

EndsWith(s, suffix) ==
    /\ Len(s) >= Len(suffix)
    /\ SubSeq(s, Len(s) - Len(suffix) + 1, Len(s)) = suffix

\* Stripping every trailing ".exe".
RECURSIVE StripExeAll(_)
StripExeAll(process_name) ==
    IF EndsWith(process_name, EXE)
    THEN StripExeAll(SubSeq(process_name, 1, Len(process_name) - ExeLen))
    ELSE process_name

\* "Remove .exe extension if present": process_name[..len - 4].
StripExe(process_name) ==
    IF EndsWith(process_name, EXE)
    THEN SubSeq(process_name, 1, Len(process_name) - ExeLen)
    ELSE process_name

get_active_process_name(probe) ==
    IF probe.ok THEN Some(StripExe(probe.name)) ELSE None

\* start_window_watch: spawn the loop with an empty last_title.
WatchStart(w) ==
    /\ ~started[w]
    /\ started' = [started EXCEPT ![w] = TRUE]
    /\ last_title' = [last_title EXCEPT ![w] = <<>>]
    /\ UNCHANGED <<windowVars, animVars, followVars, pinArgs, emitted, wtick>>

\* A test that lets the widget's own name through.
NameChangedOrSelf(r, last) ==
    /\ r.some
    /\ r.val # last
    /\ r.val # <<>>

\* `if let Some(process_name)` and `process_name != last_title &&
\* !process_name.is_empty() && process_name != "quack"`.
NameChanged(r, last) ==
    /\ r.some
    /\ r.val # last
    /\ r.val # <<>>
    /\ r.val # QUACK

\* One pass of the watcher loop: probe, compare, notify, remember.  The
\* probe delivers one of `probes`.
WatchTickOn(w, probes) ==
    /\ started[w]
    /\ Len(emitted[w]) < MaxEmits
    /\ \E probe \in probes, found \in BOOLEAN :
          LET r == get_active_process_name(probe)
              changed == NameChanged(r, last_title[w])
          IN  /\ (~changed) => found       \* the window is looked up only then
              /\ emitted' = [emitted EXCEPT ![w] =
                    IF changed /\ found THEN Append(@, r.val) ELSE @]
              /\ last_title' = [last_title EXCEPT ![w] =
                    IF changed THEN r.val ELSE @]
              /\ wtick' = [wtick EXCEPT ![w] =
                    [probe |-> IF probe.ok THEN "some" ELSE "none",
                     raw |-> IF probe.ok THEN probe.name ELSE <<>>,
                     name |-> IF r.some THEN r.val ELSE <<>>,
                     before |-> last_title[w],
                     sent |-> Len(emitted[w]),
                     changed |-> changed,
                     notified |-> changed /\ found]]
    /\ UNCHANGED <<windowVars, animVars, followVars, pinArgs, started>>

WatchTick(w) == WatchTickOn(w, Probes)

Watch(w) == WatchStart(w) \/ WatchTick(w)

\* ------------------------------------------------------ initial state
NoTick == [ticked |-> FALSE]

NoPin == [read |-> FALSE, found |-> FALSE]

NoWTick == [probe |-> "never"]

InitWindow ==
    /\ winSize \in {Size(OriginalWidth, OriginalHeight), Size(DotWidth, DotHeight)}
    /\ winPos = Pos(100, 100)

InitIdle ==
    /\ pc = [th \in Threads |-> "idle"]
    /\ anim = [th \in Threads |-> NoAnim]
    /\ req = [th \in Threads |-> NoReq]
    /\ nreq = [th \in Threads |-> 0]
    /\ slept = [th \in Threads |-> 0]
    /\ tick = [t \in FollowTasks |-> NoTick]
    /\ seen = [th \in Threads |-> {}]
    /\ lastEv = [th \in Threads |-> <<"none">>]
    /\ count = [t \in FollowTasks |-> [expand |-> 0, exit |-> 0, done |-> 0]]
    /\ pinArgs = NoPin
    /\ started = [w \in Watchers |-> FALSE]
    /\ last_title = [w \in Watchers |-> <<>>]
    /\ emitted = [w \in Watchers |-> <<>>]
    /\ wtick = [w \in Watchers |-> NoWTick]

\* ------------------------------------- the stepper called on its own
HarnessSizes == {Size(w, h) : w \in 0..MaxDim, h \in 0..MaxDim}

HarnessPositions == {Pos(px, py) : px \in (-MaxDim)..MaxDim, py \in (-MaxDim)..MaxDim}

\* smooth_resize or smooth_move has just been called with any arguments.
InitAnim ==
    /\ winSize = Size(OriginalWidth, OriginalHeight)
    /\ winPos = Pos(100, 100)
    /\ pc \in {[th \in Threads |-> IF th = "anim" THEN "call" ELSE "idle"]}
    /\ \E steps \in 0..MaxSteps :
          \/ \E from \in HarnessSizes, to \in HarnessSizes :
                anim = [th \in Threads |->
                          IF th = "anim"
                          THEN Call("smooth_resize", from, to, steps) ELSE NoAnim]
          \/ \E from \in HarnessPositions, to \in HarnessPositions :
                anim = [th \in Threads |->
                          IF th = "anim"
                          THEN Call("smooth_move", from, to, steps) ELSE NoAnim]
    /\ req = [th \in Threads |-> NoReq]
    /\ nreq = [th \in Threads |-> 0]
    /\ slept = [th \in Threads |-> 0]
    /\ tick = [t \in FollowTasks |-> NoTick]
    /\ seen = [th \in Threads |-> {}]
    /\ lastEv = [th \in Threads |-> <<"none">>]
    /\ count = [t \in FollowTasks |-> [expand |-> 0, exit |-> 0, done |-> 0]]
    /\ pinArgs = NoPin
    /\ started = [w \in Watchers |-> FALSE]
    /\ last_title = [w \in Watchers |-> <<>>]
    /\ emitted = [w \in Watchers |-> <<>>]
    /\ wtick = [w \in Watchers |-> NoWTick]

NextAnim == Smooth("anim")

SpecAnim == InitAnim /\ [][NextAnim]_vars

\* ------------------------------------------ one follow_magic_dot call
InitFollow == InitWindow /\ InitIdle

NextFollow == Follow("follow1")

SpecFollow == InitFollow /\ [][NextFollow]_vars

\* -------------------------------------------------- one pin_magic_dot call
PinStarts == {Pos(100, 100), Pos(-37, 53), Pos(1000, 0)}

InitPin ==
    /\ winSize \in {original_size, DotSize}
    /\ winPos \in PinStarts
    /\ InitIdle

NextPin == Pin

SpecPin == InitPin /\ [][NextPin]_vars

\* ------------------------------------------------------ one watcher loop
InitWatch == InitWindow /\ InitIdle

NextWatch == Watch("watch1")

SpecWatch == InitWatch /\ [][NextWatch]_vars

\* ------------------- one follow_magic_dot call, the mouse on the widget
\* The mouse rests at one location: the centre of a 20x20 dot standing at
\* (100, 100).
RestingMouse == Pos(100 + HalfDot, 100 + HalfDot)

InitCentre ==
    /\ winSize = Size(OriginalWidth, OriginalHeight)
    /\ winPos = Pos(100, 100)
    /\ InitIdle

NextResting ==
    \/ FollowInvoke("follow1")
    \/ Animate("follow1")
    \/ FollowTickAt("follow1", {RestingMouse})
    \/ EmitFirst("follow1")
    \/ EmitSecond("follow1")

SpecCentre == InitCentre /\ [][NextResting]_vars

\* --------------- one follow_magic_dot call, the mouse at rest anywhere
\* The widget starts on a grid of positions around the resting mouse, from
\* on top of it to well beyond the pursuit distance, in every direction.
RestingStarts ==
    {Pos(100 + 13 * i, 100 + 11 * j) :
        i \in (-MaxOffset)..MaxOffset, j \in (-MaxOffset)..MaxOffset}

InitResting ==
    /\ winSize = Size(DotWidth, DotHeight)
    /\ winPos \in RestingStarts
    /\ InitIdle

SpecResting == InitResting /\ [][NextResting]_vars

\* ---------------------------------------------------- two watcher loops
\* start_window_watch invoked twice; the foreground process is "a" or
\* "b.exe", or the probe fails.
TwoProcesses ==
    {[ok |-> FALSE], [ok |-> TRUE, name |-> <<"a">>],
     [ok |-> TRUE, name |-> <<"b">> \o EXE]}

NextWatchers ==
    \/ WatchStart("watch1")
    \/ WatchTickOn("watch1", TwoProcesses)
    \/ WatchStart("watch2")
    \/ WatchTickOn("watch2", TwoProcesses)

SpecWatchers == InitWatch /\ [][NextWatchers]_vars

\* ------------------------------------- two follow_magic_dot invocations
\* follow_magic_dot is invoked, and invoked again at any moment after the
\* first command has returned to its caller (the shrink animation runs
\* inside the command; the loop runs on the thread the command spawned).
\* For the first invocation the mouse is on the dot or 41 px to the right of
\* its centre; the second invocation is followed through its shrink
\* animation and the ticks of its loop that see the mouse 41 px away.
RaceMouse == {RestingMouse, Pos(151, 110)}

InitRace ==
    /\ winSize = Size(DotWidth, DotHeight)
    /\ winPos = Pos(100, 100)
    /\ InitIdle

NextRace ==
    \/ FollowInvoke("follow1")
    \/ Animate("follow1")
    \/ FollowTickAt("follow1", RaceMouse)
    \/ EmitFirst("follow1")
    \/ EmitSecond("follow1")
    \/ (pc["follow1"] \notin {"idle", "shrink"} /\ FollowInvoke("follow2"))
    \/ Animate("follow2")
    \/ FollowTickAt("follow2", {Pos(151, 110)})

SpecRace == InitRace /\ [][NextRace]_vars

\* ------------------------------------------------------ the whole program
\* One invocation of each command, running concurrently.
Init == InitWindow /\ InitIdle

Next == Follow("follow1") \/ Pin \/ Watch("watch1")

Spec == Init /\ [][Next]_vars

\* ===================================================== claims C1..C10
\* The follow_magic_dot invocation the claims below speak of.
T == "follow1"

ExitStages == {"expand", "emit_exit", "emit_done", "done"}

\* C1: when smooth_resize or smooth_move returns from a call with
\* steps >= 1, the last value it applied to the window is exactly `to`,
\* whatever from, to and steps are (so also when to - from is not a multiple
\* of steps); the window holds `to` when that last write succeeded.
C1_FinalValueIsTo ==
    (pc["anim"] = "returned" /\ anim["anim"].steps >= 1) =>
        /\ req["anim"].val = anim["anim"].to
        /\ anim["anim"].fn = "smooth_resize" =>
              /\ req["anim"].kind = "size"
              /\ req["anim"].ok => winSize = anim["anim"].to
        /\ anim["anim"].fn = "smooth_move" =>
              /\ req["anim"].kind = "pos"
              /\ req["anim"].ok => winPos = anim["anim"].to

\* A move over 2 steps of a delta of -3 has returned: the frames went by -1
\* per step and the closing write made up the rest.
C1_Witness ==
    /\ pc["anim"] = "returned"
    /\ anim["anim"].fn = "smooth_move"
    /\ anim["anim"].steps = 2
    /\ anim["anim"].to.x - anim["anim"].from.x = -3
    /\ nreq["anim"] = 3
    /\ req["anim"].ok
    /\ winPos = anim["anim"].to

\* The stage of the invocation an event belongs to, and the stage a program
\* position belongs to.
EvStage(e) ==
    CASE e = <<"shrink", "frame">>  -> 1
      [] e = <<"shrink", "final">>  -> 2
      [] e = <<"tick">>             -> 2
      [] e = <<"follow", "write">>  -> 2
      [] e = <<"expand", "frame">>  -> 3
      [] e = <<"expand", "final">>  -> 4
      [] e = <<"exit_follow_mode">> -> 5
      [] e = <<"onboarding_done">>  -> 6
      [] OTHER                      -> 0

PcStage(p) ==
    CASE p = "shrink"    -> 1
      [] p = "follow"    -> 2
      [] p = "expand"    -> 3
      [] p = "emit_exit" -> 4
      [] p = "emit_done" -> 5
      [] p = "done"      -> 6
      [] OTHER           -> 0

\* C2: within one follow_magic_dot invocation the events are ordered: no
\* event of an earlier stage follows an event of a later one (shrink writes,
\* then follow ticks and position writes, then expand writes, then
\* exit_follow_mode, then onboarding_done), each stage starts only after the
\* one before it has ended (the closing 400x48 write before exit_follow_mode),
\* and the invocation never is at a stage earlier than its latest event.
C2_StagesInOrder ==
    /\ \A e \in seen[T] : EvStage(e) <= EvStage(lastEv[T])
    /\ EvStage(lastEv[T]) <= PcStage(pc[T])
    /\ PcStage(pc[T]) <= EvStage(lastEv[T]) + 1
    /\ <<"tick">> \in seen[T] => <<"shrink", "final">> \in seen[T]
    /\ <<"follow", "write">> \in seen[T] => <<"tick">> \in seen[T]
    /\ <<"expand", "frame">> \in seen[T] => <<"tick">> \in seen[T]
    /\ <<"expand", "final">> \in seen[T] => <<"expand", "frame">> \in seen[T]
    /\ <<"exit_follow_mode">> \in seen[T] =>
          /\ <<"expand", "final">> \in seen[T]
          /\ req[T].kind = "size"
          /\ req[T].val = Size(400, 48)
    /\ <<"onboarding_done">> \in seen[T] => <<"exit_follow_mode">> \in seen[T]

\* An invocation that went through every stage, position writes included.
C2_Witness ==
    /\ pc[T] = "done"
    /\ seen[T] = {<<"shrink", "frame">>, <<"shrink", "final">>, <<"tick">>,
                  <<"follow", "write">>, <<"expand", "frame">>,
                  <<"expand", "final">>, <<"exit_follow_mode">>,
                  <<"onboarding_done">>}

\* C3: a tick that measures a distance below 20 leaves Following for good:
\* it writes no position, one expand animation runs, each signal is emitted
\* once, and when the task is done nothing of it can happen any more.
C3_ExitOnce ==
    /\ count[T].expand <= 1 /\ count[T].exit <= 1 /\ count[T].done <= 1
    /\ (tick[T].ticked /\ tick[T].posRead) =>
          LET dx == tick[T].mouse.x - (tick[T].position.x + 10)
              dy == tick[T].mouse.y - (tick[T].position.y + 10)
          IN  (dx * dx + dy * dy < 400) <=> pc[T] \in ExitStages
    /\ pc[T] \in ExitStages =>
          /\ tick[T].posRead /\ tick[T].left /\ ~tick[T].wrote
          /\ winPos = tick[T].position
          /\ count[T].expand = 1
    /\ pc[T] \in {"expand", "emit_exit"} => count[T].exit = 0 /\ count[T].done = 0
    /\ pc[T] = "emit_done" => count[T].exit = 1 /\ count[T].done = 0
    /\ pc[T] = "done" =>
          /\ count[T].exit = 1 /\ count[T].done = 1
          /\ ~ENABLED Follow(T)

\* The loop pursued the mouse, then the mouse came within 20 px and the task
\* ran to its end.
C3_Witness ==
    /\ pc[T] = "done"
    /\ <<"follow", "write">> \in seen[T]
    /\ count[T] = [expand |-> 1, exit |-> 1, done |-> 1]

\* r is q * 0.15 with the fraction dropped (truncation toward zero).
IsTruncatedGain(r, q) ==
    /\ r * q >= 0
    /\ 100 * Abs(r) <= 15 * Abs(q)
    /\ 15 * Abs(q) < 100 * (Abs(r) + 1)

\* C6: a tick at distance 20 <= d <= 40 writes no position and leaves the
\* widget where it was; a tick at distance d > 40 writes
\* old + trunc(0.15 * (mouse - centre)), each component truncated toward zero.
C6_DeadAndPursuitZones ==
    (tick[T].ticked /\ tick[T].posRead) =>
        LET old == tick[T].position
            dx == tick[T].mouse.x - (old.x + 10)
            dy == tick[T].mouse.y - (old.y + 10)
            d2 == dx * dx + dy * dy
        IN  /\ (400 <= d2 /\ d2 <= 1600) =>
                  /\ ~tick[T].wrote /\ ~tick[T].left
                  /\ lastEv[T] = <<"tick">>
                  /\ winPos = old
            /\ d2 > 1600 =>
                  /\ tick[T].wrote /\ ~tick[T].left
                  /\ IsTruncatedGain(tick[T].val.x - old.x, dx)
                  /\ IsTruncatedGain(tick[T].val.y - old.y, dy)
                  /\ req[T] = PosReq(tick[T].val, tick[T].ok)
                  /\ winPos = IF tick[T].ok THEN tick[T].val ELSE old

\* A pursuit tick whose vertical offset is negative and not a multiple of
\* 20, so that truncation and flooring differ.
C6_Witness ==
    /\ tick[T].ticked /\ tick[T].posRead /\ tick[T].wrote /\ tick[T].ok
    /\ tick[T].mouse.y - (tick[T].position.y + 10) = -53
    /\ tick[T].val.y = tick[T].position.y - 7
    /\ winPos = tick[T].val

\* C9 (as claimed): no failure of a lookup, a geometry read, a geometry write
\* or the probe makes a command or a loop terminate abnormally.
C9_NoFatalPath == \A th \in Threads : pc[th] # "panicked"

\* C10 (as claimed): a tick in which the position read or the size read
\* fails is skipped, and the loop stays in Following.
C10_AnyReadErrSkips ==
    (tick[T].ticked /\ (~tick[T].posRead \/ tick[T].sizeRead = "failed")) =>
        /\ pc[T] = "follow"
        /\ count[T].expand = 0

\* C10 (amended): a tick whose position read fails is skipped: no write, no
\* signal, the loop stays in Following.  A tick whose size read fails (the
\* read is made only at distance < 20) is not skipped: it leaves Following
\* and the expand animation runs from 10x10 to 400x48.
C10_PositionErrSkips ==
    /\ (tick[T].ticked /\ ~tick[T].posRead) =>
          /\ pc[T] = "follow"
          /\ lastEv[T] = <<"tick">>
          /\ ~tick[T].wrote /\ ~tick[T].left
          /\ tick[T].sizeRead = "none"
          /\ count[T] = [expand |-> 0, exit |-> 0, done |-> 0]
    /\ (tick[T].ticked /\ tick[T].sizeRead = "failed") =>
          /\ pc[T] \in ExitStages
          /\ tick[T].left /\ ~tick[T].wrote
          /\ anim[T].from = Size(10, 10)
          /\ anim[T].to = Size(400, 48)

\* In the middle of a pursuit a position read failed and the loop went on.
C10_Witness ==
    /\ tick[T].ticked /\ ~tick[T].posRead
    /\ <<"follow", "write">> \in seen[T]
    /\ winPos # Pos(100, 100)
    /\ pc[T] = "follow"

\* The watcher loop the claims below speak of.
W == "watch1"

\* C7 (as claimed): once pin_magic_dot has read position, size and monitor
\* and has returned, the window is at (max(0, (monitor - width) / 2), 0).
C7_PinnedAtTarget ==
    pc["pin"] = "pinned" =>
        LET gap == pinArgs.screen_width - pinArgs.current_size.width
        IN  winPos = Pos(IF gap >= 0 THEN gap \div 2 ELSE 0, 0)

\* C7 (amended): the last position pin_magic_dot applies is
\* (max(0, (monitor - width) / 2), 0), whatever the starting position, and
\* the window is there when that last write succeeded; a 20-px-wide widget on
\* a 1920-px-wide monitor is then at (950, 0).
C7_LastWriteIsTarget ==
    pc["pin"] = "pinned" =>
        LET gap == pinArgs.screen_width - pinArgs.current_size.width
            target == req["pin"].val
        IN  /\ req["pin"].kind = "pos"
            /\ target.y = 0
            /\ target.x >= 0
            /\ gap >= 0 => (2 * target.x <= gap /\ gap < 2 * target.x + 2)
            /\ gap < 0 => target.x = 0
            /\ req["pin"].ok => winPos = target
            /\ (req["pin"].ok /\ pinArgs.screen_width = 1920
                  /\ pinArgs.current_size.width = 20) => winPos = Pos(950, 0)

\* The 20x20 widget docked on the 1920-px monitor from a starting position
\* left of the screen.
C7_Witness ==
    /\ pc["pin"] = "pinned"
    /\ pinArgs.current_pos = Pos(-37, 53)
    /\ pinArgs.current_size = Size(20, 20)
    /\ pinArgs.screen_width = 1920
    /\ req["pin"].ok
    /\ winPos = Pos(950, 0)

\* C4 (as claimed): no two consecutive notifications of one watcher loop
\* carry the same name, and none carries the empty name or "quack".
C4_NoRepeatNoSelf ==
    \A i \in 1..Len(emitted[W]) :
        /\ emitted[W][i] # <<>>
        /\ emitted[W][i] # <<"q", "u", "a", "c", "k">>
        /\ i > 1 => emitted[W][i] # emitted[W][i - 1]

\* C5 (as claimed): a tick whose name is non-empty, not "quack" and not the
\* last-known name notifies with that name and makes it the last-known name;
\* the last-known name changes only in a tick that notifies, so it is the
\* payload of the latest notification (empty if there was none).
C5_NotifiesAndTracks ==
    /\ (wtick[W].probe = "some" /\ wtick[W].name # <<>>
          /\ wtick[W].name # <<"q", "u", "a", "c", "k">>
          /\ wtick[W].name # wtick[W].before) =>
             /\ wtick[W].notified
             /\ last_title[W] = wtick[W].name
    /\ last_title[W] =
          IF emitted[W] = <<>> THEN <<>> ELSE emitted[W][Len(emitted[W])]

\* n ends in ".exe".
HasExeSuffix(n) ==
    /\ Len(n) >= 4
    /\ n[Len(n) - 3] = "." /\ n[Len(n) - 2] = "e"
    /\ n[Len(n) - 1] = "x" /\ n[Len(n)] = "e"

\* C8: the name a tick compares and sends is the probed name less exactly
\* one trailing ".exe" when it ends in ".exe", and the probed name itself
\* otherwise; the comparison with the last-known name, the empty name and
\* "quack", and the payload, use that name.
C8_SuffixStrippedOnce ==
    wtick[W].probe = "some" =>
        LET raw == wtick[W].raw
            name == wtick[W].name
        IN  /\ HasExeSuffix(raw) => name \o <<".", "e", "x", "e">> = raw
            /\ ~HasExeSuffix(raw) => name = raw
            /\ wtick[W].changed <=>
                  /\ name # wtick[W].before
                  /\ name # <<>>
                  /\ name # <<"q", "u", "a", "c", "k">>
            /\ wtick[W].changed => last_title[W] = name
            /\ wtick[W].notified =>
                  /\ emitted[W] # <<>>
                  /\ emitted[W][Len(emitted[W])] = name

\* "a.exe.exe" was probed and "a.exe" was sent.
C8_Witness ==
    /\ wtick[W].probe = "some"
    /\ wtick[W].raw = <<"a", ".", "e", "x", "e", ".", "e", "x", "e">>
    /\ wtick[W].notified
    /\ emitted[W][Len(emitted[W])] = <<"a", ".", "e", "x", "e">>

\* ==================================================== claims C11..C20
\* C11: a follow_magic_dot call that does not find the "magic-dot" window is
\* a no-op: it returns its error having written no size and no position,
\* started no follow loop, run no animation and emitted no signal, the
\* window is as it was, and nothing of the call can happen afterwards.
C11_NotFoundIsNoOp ==
    NotFoundErr \in seen[T] =>
        /\ pc[T] = "notfound"
        /\ seen[T] = {NotFoundErr}
        /\ req[T] = NoReq /\ nreq[T] = 0 /\ slept[T] = 0
        /\ anim[T] = NoAnim
        /\ tick[T] = NoTick
        /\ count[T] = [expand |-> 0, exit |-> 0, done |-> 0]
        /\ winPos = Pos(100, 100)
        /\ winSize \in {Size(400, 48), Size(20, 20)}
        /\ ~ENABLED Follow(T)

\* The lookup failed and the command has returned its error.
C11_Witness ==
    /\ pc[T] = "notfound"
    /\ lastEv[T] = NotFoundErr

\* C12: a pin_magic_dot call that does not find the window, or that cannot
\* read its position, its size or its monitor (an error, or no monitor),
\* writes no position and runs no animation; the window stays where it was
\* and nothing of the call can happen afterwards.
C12_PinUnavailableIsNoOp ==
    (pc["pin"] # "idle"
       /\ (~pinArgs.found \/ ~pinArgs.posRead \/ ~pinArgs.sizeRead
             \/ pinArgs.monitor # "some")) =>
        /\ pc["pin"] \in {"notfound", "unavailable"}
        /\ req["pin"] = NoReq /\ nreq["pin"] = 0 /\ slept["pin"] = 0
        /\ anim["pin"] = NoAnim
        /\ seen["pin"] = {}
        /\ winPos = pinArgs.current_pos
        /\ ~ENABLED Pin

\* The window was found and position and size were read, but there is no
\* current monitor.
C12_Witness ==
    /\ pc["pin"] = "unavailable"
    /\ pinArgs.found /\ pinArgs.posRead /\ pinArgs.sizeRead
    /\ pinArgs.monitor = "none"
    /\ winPos = Pos(-37, 53)

\* C14: a smooth_resize or smooth_move call with steps == 0 applies `to`
\* with exactly one write and returns: no other value is written, no frame
\* of the loop runs and no sleep occurs; before that one write the call has
\* written nothing.
C14_ZeroStepsOneWrite ==
    (pc["anim"] \in {"call", "returned"} /\ anim["anim"].steps = 0) =>
        /\ slept["anim"] = 0
        /\ pc["anim"] = "call" =>
              /\ anim["anim"].active
              /\ nreq["anim"] = 0 /\ req["anim"] = NoReq /\ seen["anim"] = {}
        /\ pc["anim"] = "returned" =>
              /\ ~anim["anim"].active
              /\ nreq["anim"] = 1
              /\ seen["anim"] = {FinalEv("call")}
              /\ req["anim"].val = anim["anim"].to
              /\ req["anim"].kind = Kind(anim["anim"])
              /\ ~ENABLED Smooth("anim")

\* A resize with steps == 0 from 3x0 to 0x2 has returned after its one
\* write, which succeeded.
C14_Witness ==
    /\ pc["anim"] = "returned"
    /\ anim["anim"].steps = 0
    /\ anim["anim"].fn = "smooth_resize"
    /\ anim["anim"].from = Size(3, 0)
    /\ anim["anim"].to = Size(0, 2)
    /\ nreq["anim"] = 1
    /\ req["anim"].ok
    /\ winSize = Size(0, 2)

\* q is a / b with the fraction dropped (b > 0): truncation toward zero.
IsTruncatedQuotient(q, a, b) ==
    /\ q * a >= 0
    /\ Abs(q) * b <= Abs(a)
    /\ Abs(a) < (Abs(q) + 1) * b

\* v = from + ((to - from) div steps) * i, the division truncating.
IsInterpolated(v, from, to, steps, i) ==
    \E q \in (-2 * (MaxDim + 1))..(2 * (MaxDim + 1)) :
        /\ IsTruncatedQuotient(q, to - from, steps)
        /\ v = from + q * i

\* C17 (as claimed): for steps >= 1 the i-th value the loop writes is
\* from + ((to - from) div steps) * i in each component, the division
\* truncating toward zero, for smooth_resize and smooth_move alike.
C17_FramesInterpolated ==
    (pc["anim"] = "call" /\ nreq["anim"] >= 1) =>
        LET a == anim["anim"]
            i == nreq["anim"]
            v == req["anim"].val
        IN  /\ a.fn = "smooth_resize" =>
                  /\ IsInterpolated(v.width, a.from.width, a.to.width, a.steps, i)
                  /\ IsInterpolated(v.height, a.from.height, a.to.height, a.steps, i)
            /\ a.fn = "smooth_move" =>
                  /\ IsInterpolated(v.x, a.from.x, a.to.x, a.steps, i)
                  /\ IsInterpolated(v.y, a.from.y, a.to.y, a.steps, i)

\* v is the i-th value of the loop of the call a: the interpolated value,
\* with each dimension of a size raised to 1 when it is below 1.
IsFrame(v, a, i) ==
    IF a.fn = "smooth_resize"
    THEN \E w \in (-1)..(MaxDim + 1), h \in (-1)..(MaxDim + 1) :
            /\ IsInterpolated(w, a.from.width, a.to.width, a.steps, i)
            /\ IsInterpolated(h, a.from.height, a.to.height, a.steps, i)
            /\ v.width = IF w < 1 THEN 1 ELSE w
            /\ v.height = IF h < 1 THEN 1 ELSE h
    ELSE /\ IsInterpolated(v.x, a.from.x, a.to.x, a.steps, i)
         /\ IsInterpolated(v.y, a.from.y, a.to.y, a.steps, i)

\* C17 (amended): for steps >= 1 the i-th value smooth_move writes is
\* from + ((to - from) div steps) * i in each component, the division
\* truncating toward zero; the i-th value smooth_resize writes is that
\* value with each dimension raised to 1 when it is below 1.
C17_FramesInterpolatedClamped ==
    (pc["anim"] = "call" /\ nreq["anim"] >= 1) =>
        /\ nreq["anim"] <= anim["anim"].steps
        /\ req["anim"].kind =
              (IF anim["anim"].fn = "smooth_resize" THEN "size" ELSE "pos")
        /\ IsFrame(req["anim"].val, anim["anim"], nreq["anim"])

\* The third frame of a resize from 3x2 to 0x3 over 3 steps: the width went
\* 2, 1 and then, 3 - 1 * 3 being 0, was written as 1; the height, whose
\* step is 1 div 3 = 0, stayed at 2.
C17_Witness ==
    /\ pc["anim"] = "call"
    /\ anim["anim"].fn = "smooth_resize"
    /\ anim["anim"].from = Size(3, 2)
    /\ anim["anim"].to = Size(0, 3)
    /\ anim["anim"].steps = 3
    /\ nreq["anim"] = 3
    /\ req["anim"].val = Size(1, 2)

\* C18: a failed write never aborts an animation.  For steps >= 1 the call
\* makes its attempts in the same order whatever the outcome of each: after
\* k attempts of the loop it has slept k times, its latest attempt was the
\* k-th frame, and it goes on whether or not that attempt succeeded; it
\* returns after exactly `steps` attempts of the loop and one closing
\* attempt of `to`.
C18_FailedWriteGoesOn ==
    (pc["anim"] \in {"call", "returned"} /\ anim["anim"].steps >= 1) =>
        LET a == anim["anim"]
        IN  /\ pc["anim"] = "call" =>
                  /\ a.active
                  /\ nreq["anim"] = a.i - 1
                  /\ nreq["anim"] <= a.steps
                  /\ slept["anim"] = nreq["anim"]
                  /\ nreq["anim"] >= 1 =>
                        /\ IsFrame(req["anim"].val, a, nreq["anim"])
                        /\ lastEv["anim"] = <<"call", "frame">>
                        /\ seen["anim"] = {<<"call", "frame">>}
                  /\ ENABLED Smooth("anim")
            /\ pc["anim"] = "returned" =>
                  /\ ~a.active
                  /\ nreq["anim"] = a.steps + 1
                  /\ slept["anim"] = a.steps
                  /\ req["anim"].val = a.to
                  /\ lastEv["anim"] = <<"call", "final">>
                  /\ seen["anim"] = {<<"call", "frame">>, <<"call", "final">>}

\* A move over 3 steps has returned after 4 attempts, the last of which
\* failed: the window is not at `to`.
C18_Witness ==
    /\ pc["anim"] = "returned"
    /\ anim["anim"].fn = "smooth_move"
    /\ anim["anim"].steps = 3
    /\ nreq["anim"] = 4
    /\ slept["anim"] = 3
    /\ ~req["anim"].ok
    /\ winPos # anim["anim"].to

\* C13 (as claimed): with the widget at 400x48 and (100, 100) and the mouse
\* resting on the widget's centre, the first follow tick leaves Following, no
\* pursuit write ever happens, exactly one expand animation runs and ends
\* with the window at 400x48, then exit_follow_mode and onboarding_done are
\* emitted in that order.
C13_CentreExitsAtFirstTick ==
    /\ <<"follow", "write">> \notin seen[T]
    /\ tick[T].ticked => (tick[T].left /\ pc[T] \in ExitStages)
    /\ count[T].expand <= 1
    /\ pc[T] \in {"emit_exit", "emit_done", "done"} =>
          /\ count[T].expand = 1
          /\ winSize = Size(400, 48)
    /\ pc[T] = "done" =>
          /\ count[T] = [expand |-> 1, exit |-> 1, done |-> 1]
          /\ lastEv[T] = <<"onboarding_done">>

\* C13 (amended): with the widget at 400x48 and (100, 100) and the mouse
\* resting on the widget's centre, no pursuit write ever happens and the
\* widget stays at (100, 100); a tick whose position read fails is skipped,
\* and the first tick that reads the position measures distance 0 and leaves
\* Following; exactly one expand animation runs, its last write is 400x48
\* (which is the window's size when that write succeeded); then
\* exit_follow_mode and after it onboarding_done are emitted, once each.
C13_CentreExitsAtFirstRead ==
    /\ <<"follow", "write">> \notin seen[T]
    /\ winPos = Pos(100, 100)
    /\ (tick[T].ticked /\ ~tick[T].posRead) =>
          (pc[T] = "follow" /\ ~tick[T].left /\ count[T].expand = 0)
    /\ (tick[T].ticked /\ tick[T].posRead) =>
          /\ tick[T].position = Pos(100, 100)
          /\ tick[T].mouse = Pos(110, 110)
          /\ tick[T].left /\ ~tick[T].wrote
          /\ pc[T] \in ExitStages
    /\ count[T].expand = (IF pc[T] \in ExitStages THEN 1 ELSE 0)
    /\ pc[T] \in ExitStages => anim[T].to = Size(400, 48)
    /\ pc[T] \in {"emit_exit", "emit_done", "done"} =>
          /\ req[T].kind = "size"
          /\ req[T].val = Size(400, 48)
          /\ nreq[T] = 11
          /\ req[T].ok => winSize = Size(400, 48)
    /\ pc[T] \in {"expand", "emit_exit"} =>
          (count[T].exit = 0 /\ count[T].done = 0)
    /\ pc[T] = "emit_done" =>
          /\ count[T].exit = 1 /\ count[T].done = 0
          /\ lastEv[T] = <<"exit_follow_mode">>
    /\ pc[T] = "done" =>
          /\ count[T].exit = 1 /\ count[T].done = 1
          /\ lastEv[T] = <<"onboarding_done">>
          /\ ~ENABLED NextResting

\* The whole scenario with every read and write succeeding: the dot shrank
\* to 20x20, the first tick left Following, the widget is back at 400x48 and
\* both signals were sent.
C13_Witness ==
    /\ pc[T] = "done"
    /\ tick[T].posRead /\ tick[T].sizeRead = "ok"
    /\ anim[T].from = Size(20, 20)
    /\ req[T].ok
    /\ winSize = Size(400, 48)
    /\ winPos = Pos(100, 100)
    /\ seen[T] = {<<"shrink", "frame">>, <<"shrink", "final">>, <<"tick">>,
                  <<"expand", "frame">>, <<"expand", "final">>,
                  <<"exit_follow_mode">>, <<"onboarding_done">>}

\* The squared distance from the centre of a dot at p to the resting mouse.
RestingDistanceSquared(p) ==
    (110 - (p.x + 10)) * (110 - (p.x + 10)) + (110 - (p.y + 10)) * (110 - (p.y + 10))

\* C19 (as claimed): with the mouse at rest, a tick at distance d > 40
\* leaves the widget at a distance that is strictly smaller than d and
\* still at least 20.
C19_PursuitTickApproaches ==
    (tick[T].ticked /\ tick[T].wrote /\ lastEv[T] = <<"follow", "write">>) =>
        /\ RestingDistanceSquared(tick[T].position) > 1600
        /\ RestingDistanceSquared(winPos) < RestingDistanceSquared(tick[T].position)
        /\ RestingDistanceSquared(winPos) >= 400

\* What a pursuit tick with the mouse at rest writes and leaves behind.
C19_PursuitTick ==
    (tick[T].ticked /\ tick[T].wrote /\ lastEv[T] = <<"follow", "write">>) =>
        /\ RestingDistanceSquared(tick[T].position) > 1600
        /\ RestingDistanceSquared(tick[T].val) < RestingDistanceSquared(tick[T].position)
        /\ RestingDistanceSquared(tick[T].val) >= 400
        /\ winPos = IF tick[T].ok THEN tick[T].val ELSE tick[T].position

\* A step from a state in which the widget is at distance >= 20 and the
\* loop has not left Following leads to such a state, no farther away.
C19_StepStaysOut ==
    (RestingDistanceSquared(winPos) >= 400 /\ pc[T] \notin ExitStages) =>
        /\ RestingDistanceSquared(winPos') >= 400
        /\ RestingDistanceSquared(winPos') <= RestingDistanceSquared(winPos)
        /\ pc'[T] \notin ExitStages
        /\ count'[T] = [expand |-> 0, exit |-> 0, done |-> 0]
        /\ <<"exit_follow_mode">> \notin seen'[T]
        /\ <<"onboarding_done">> \notin seen'[T]

\* C19 (amended): with the mouse at rest, a tick at distance d > 40 writes a
\* position whose distance is strictly smaller than d and still at least 20;
\* the widget is there when the write succeeds and stays at distance d when
\* it fails.  So, with the mouse at rest and no other writer, once the
\* widget is at distance >= 20 it stays at distance >= 20, the loop never
\* leaves Following and neither signal is ever emitted.
C19_NeverEntersExitZone == []C19_PursuitTick /\ [][C19_StepStaysOut]_vars

\* The widget started beyond the pursuit distance, was pursued into the dead
\* zone and then ticked without writing: it is at rest outside the exit zone.
C19_Witness ==
    /\ pc[T] = "follow"
    /\ <<"follow", "write">> \in seen[T]
    /\ tick[T].ticked /\ tick[T].posRead /\ ~tick[T].wrote /\ ~tick[T].left
    /\ RestingDistanceSquared(winPos) >= 400
    /\ RestingDistanceSquared(winPos) <= 1600

T2 == "follow2"

\* C16: two overlapping follow_magic_dot invocations are not mutually
\* excluded.  While the first invocation's loop is following or expanding, or
\* has finished, a second invocation is admitted; the second's shrink and
\* position writes and the first's ticks and expand writes are each enabled
\* whatever the other task is doing, so after one task has expanded the
\* window and emitted its signals the other still writes to the window.
C16_NoMutualExclusion ==
    /\ (pc[T] \in {"follow", "expand", "emit_exit", "emit_done", "done"}
          /\ pc[T2] = "idle") => ENABLED FollowInvoke(T2)
    /\ pc[T2] = "shrink" => ENABLED Animate(T2)
    /\ pc[T2] = "follow" => ENABLED FollowTickAt(T2, RaceMouse)
    /\ pc[T] = "follow" => ENABLED FollowTickAt(T, RaceMouse)
    /\ pc[T] = "expand" => ENABLED Animate(T)
    /\ pc[T] = "emit_exit" => ENABLED EmitFirst(T)
    /\ pc[T] = "emit_done" => ENABLED EmitSecond(T)

\* The second invocation began while the first was expanding (it read the
\* size 96x24 of the first's second expand frame).  The first has since
\* written 400x48 successfully and emitted both signals; the second, still
\* shrinking, wrote after that, and the window has its size, not 400x48.
C16_Witness ==
    /\ pc[T] = "done"
    /\ count[T] = [expand |-> 1, exit |-> 1, done |-> 1]
    /\ req[T] = [kind |-> "size", val |-> Size(400, 48), ok |-> TRUE]
    /\ pc[T2] = "shrink"
    /\ anim[T2].from = Size(96, 24)
    /\ req[T2].kind = "size" /\ req[T2].ok
    /\ winSize = req[T2].val
    /\ winSize # Size(400, 48)

\* C15 (as claimed): every watcher loop starts with an empty last-known
\* name and every loop notifies on its own: each loop whose tick sees a
\* valid name other than its own last-known name sends a notification with
\* that name, so k loops seeing one change send k notifications.
C15_EveryLoopNotifies ==
    \A w \in Watchers :
        /\ wtick[w].probe = "never" => (last_title[w] = <<>> /\ emitted[w] = <<>>)
        /\ (wtick[w].probe = "some" /\ wtick[w].name # <<>>
              /\ wtick[w].name # <<"q", "u", "a", "c", "k">>
              /\ wtick[w].name # wtick[w].before) =>
                 /\ wtick[w].notified
                 /\ emitted[w] # <<>>
                 /\ emitted[w][Len(emitted[w])] = wtick[w].name

====
